---- MODULE Spec2Model ----
(***************************************************************************)
(* Model of offlineimap/utils/distro_utils.py: the OS identifier           *)
(* (get_os_name), the candidate path resolver                              *)
(* (get_os_sslcertfile_searchpath) and the existence prober                *)
(* (get_os_sslcertfile).                                                   *)
(*                                                                         *)
(* Python strings that the code inspects character by character (system    *)
(* and distribution names) are tuples of one-character strings; paths are  *)
(* only compared and tested for emptiness and stay TLA+ strings.  An       *)
(* optional value is a tuple of length 0 (None) or 1 (the value).  Python   *)
(* lists are tuples; the dict entry of __DEF_OS_LOCATIONS and a local       *)
(* variable bound to it are the same object, so an in-place append through *)
(* the local is an update of the table.                                    *)
(***************************************************************************)
EXTENDS Integers, Sequences, FiniteSets, TLC

VARIABLES
    table,            \* __DEF_OS_LOCATIONS: OS identity -> list of paths
    sys_name,         \* platform.system()
    distro_facility,  \* which linux_distribution import succeeds
    distro_name,      \* linux_distribution()[0], optional
    ssl_cap,          \* what ssl.get_default_verify_paths() offers
    environ,          \* os.getenv(verify_paths.openssl_cafile_env), optional
    cafile,           \* verify_paths.cafile, optional
    openssl_cafile,   \* verify_paths.openssl_cafile, optional
    fs,               \* filesystem: path -> [type, target]
    os_ret,           \* outcome of the last get_os_name() call
    path_ret,         \* outcome of the last get_os_sslcertfile_searchpath()
    first_path_ret,   \* outcome of the first get_os_sslcertfile_searchpath()
    file_ret,         \* outcome of the last get_os_sslcertfile() call
    last_op           \* the function called last

vars ==
    <<table, sys_name, distro_facility, distro_name, ssl_cap, environ, cafile,
      openssl_cafile, fs, os_ret, path_ret, first_path_ret, file_ret, last_op>>

inputs ==
    <<sys_name, distro_facility, distro_name, ssl_cap, environ, cafile,
      openssl_cafile, fs>>

-----------------------------------------------------------------------------
(* Bounds *)

\* The longest list an entry of the table may grow to.
MaxLen == 7

-----------------------------------------------------------------------------
(* Static data: lines 12-32 *)

freebsd ==
    <<"f", "r", "e", "e", "b", "s", "d">>

openbsd ==
    <<"o", "p", "e", "n", "b", "s", "d">>

dragonfly ==
    <<"d", "r", "a", "g", "o", "n", "f", "l", "y">>

darwin ==
    <<"d", "a", "r", "w", "i", "n">>

linux_ubuntu ==
    <<"l", "i", "n", "u", "x", "-", "u", "b", "u", "n", "t", "u">>

linux_debian ==
    <<"l", "i", "n", "u", "x", "-", "d", "e", "b", "i", "a", "n">>

linux_gentoo ==
    <<"l", "i", "n", "u", "x", "-", "g", "e", "n", "t", "o", "o">>

linux_fedora ==
    <<"l", "i", "n", "u", "x", "-", "f", "e", "d", "o", "r", "a">>

linux_redhat ==
    <<"l", "i", "n", "u", "x", "-", "r", "e", "d", "h", "a", "t">>

linux_suse ==
    <<"l", "i", "n", "u", "x", "-", "s", "u", "s", "e">>

linux_opensuse ==
    <<"l", "i", "n", "u", "x", "-", "o", "p", "e", "n", "s", "u", "s", "e">>

linux_arch ==
    <<"l", "i", "n", "u", "x", "-", "a", "r", "c", "h">>

\* __DEF_OS_LOCATIONS as the module builds it at import time.
DEF_OS_LOCATIONS ==
    (freebsd :> <<"/usr/local/share/certs/ca-root-nss.crt">>) @@
    (openbsd :> <<"/etc/ssl/cert.pem">>) @@
    (dragonfly :> <<"/etc/ssl/cert.pem">>) @@
    (darwin :> <<"/opt/local/share/curl/curl-ca-bundle.crt", "/usr/local/etc/openssl/cert.pem", "/opt/homebrew/etc/ca-certificates/cert.pem">>) @@
    (linux_ubuntu :> <<"/etc/ssl/certs/ca-certificates.crt">>) @@
    (linux_debian :> <<"/etc/ssl/certs/ca-certificates.crt">>) @@
    (linux_gentoo :> <<"/etc/ssl/certs/ca-certificates.crt">>) @@
    (linux_fedora :> <<"/etc/pki/tls/certs/ca-bundle.crt">>) @@
    (linux_redhat :> <<"/etc/pki/tls/certs/ca-bundle.crt">>) @@
    (linux_suse :> <<"/etc/ssl/ca-bundle.pem">>) @@
    (linux_opensuse :> <<"/etc/ssl/ca-bundle.pem">>) @@
    (linux_arch :> <<"/etc/ssl/certs/ca-certificates.crt">>)

linux ==
    <<"l", "i", "n", "u", "x">>

ARCH_RELEASE == "/etc/arch-release"

-----------------------------------------------------------------------------
(* Outcomes of a call: a returned value or a propagated exception *)

Outcome(k, v) == [kind |-> k, val |-> v]

Unset == Outcome("unset", <<>>)

Raised(e) == Outcome(e, <<>>)

IsRaise(o) == o.kind \in {"ImportError", "IndexError"}

-----------------------------------------------------------------------------
(* str.lower(), str.startswith(), str.split() *)

UPPERCASE ==
    <<"A", "B", "C", "D", "E", "F", "G", "H", "I", "J", "K", "L", "M",
      "N", "O", "P", "Q", "R", "S", "T", "U", "V", "W", "X", "Y", "Z">>

LOWERCASE ==
    <<"a", "b", "c", "d", "e", "f", "g", "h", "i", "j", "k", "l", "m",
      "n", "o", "p", "q", "r", "s", "t", "u", "v", "w", "x", "y", "z">>

LowerChar(ch) ==
    IF \E i \in 1..Len(UPPERCASE) : UPPERCASE[i] = ch
    THEN LOWERCASE[CHOOSE i \in 1..Len(UPPERCASE) : UPPERCASE[i] = ch]
    ELSE ch

lower(s) == [i \in 1..Len(s) |-> LowerChar(s[i])]

startswith(s, prefix) ==
    /\ Len(s) >= Len(prefix)
    /\ SubSeq(s, 1, Len(prefix)) = prefix

IsSpace(ch) == ch \in {" ", "\t", "\n"}

RECURSIVE SplitFrom(_, _, _)
\* The words of s[i..], cur being the word collected so far.
SplitFrom(s, i, cur) ==
    IF i > Len(s)
    THEN IF cur = <<>> THEN <<>> ELSE <<cur>>
    ELSE IF IsSpace(s[i])
         THEN (IF cur = <<>> THEN <<>> ELSE <<cur>>) \o SplitFrom(s, i + 1, <<>>)
         ELSE SplitFrom(s, i + 1, Append(cur, s[i]))

split(s) == SplitFrom(s, 1, <<>>)

-----------------------------------------------------------------------------
(* os.path over the modelled filesystem *)

\* stat() follows a symbolic link; lstat() does not.
StatType(p) == IF fs[p].type = "link" THEN fs[p].target ELSE fs[p].type

exists(p) == p \in DOMAIN fs /\ StatType(p) # "missing"

isfile(p) == p \in DOMAIN fs /\ StatType(p) = "file"

islink(p) == p \in DOMAIN fs /\ fs[p].type = "link"

-----------------------------------------------------------------------------
(* get_os_name: lines 35-61 *)

\* Lines 50-53: the import of linux_distribution, with its fallback.
ImportLinuxDistribution ==
    IF distro_facility = "platform" THEN "ok"
    ELSE IF distro_facility = "distro" THEN "ok"
    ELSE "ImportError"

\* Lines 56-57: the distribution token appended to the OS name.
DistroSuffix(os_name) ==
    IF distro_name # <<>> /\ distro_name[1] # <<>>
    THEN IF split(distro_name[1]) = <<>>
         THEN Raised("IndexError")
         ELSE Outcome("return",
                      os_name \o <<"-">> \o lower(split(distro_name[1])[1]))
    ELSE Outcome("return", os_name)

\* ArchOverride with the marker test lost: the name of step 2 is kept.
ArchOverrideSkipped(named) == named

\* Lines 58-59: the Arch Linux marker file overrides the name.
ArchOverride(named) ==
    IF exists(ARCH_RELEASE) THEN Outcome("return", linux_arch) ELSE named

get_os_name ==
    LET os_name == lower(sys_name)
        named   == DistroSuffix(os_name)
    IN  IF startswith(os_name, linux)
        THEN IF ImportLinuxDistribution # "ok"
             THEN Raised(ImportLinuxDistribution)
             ELSE IF IsRaise(named) THEN named ELSE ArchOverride(named)
        ELSE Outcome("return", os_name)

-----------------------------------------------------------------------------
(* get_os_sslcertfile_searchpath: lines 64-95 *)

\* Line 75: dict.get(os_name, []).  TRUE when the local variable is the
\* table's own list object, FALSE when it is the fresh default list.
Aliased(tbl, os_name) == os_name \in DOMAIN tbl

Lookup(tbl, os_name) == IF Aliased(tbl, os_name) THEN tbl[os_name] ELSE <<>>

\* Lines 80-82: the value of the environment variable, when os.getenv
\* does not return None.
EnvPart == IF environ # <<>> THEN <<environ[1]>> ELSE <<>>

\* Lines 83-85.
ResolvedPart == IF cafile # <<>> THEN <<cafile[1]>> ELSE <<>>

\* Lines 86-88.
HardcodedPart == IF openssl_cafile # <<>> THEN <<openssl_cafile[1]>> ELSE <<>>

\* Appended with the environment read under a default variable name when
\* the openssl_cafile_env field is missing.
AppendedDespiteMissingEnvField ==
    CASE ssl_cap = "no_function"       -> <<>>
      [] ssl_cap = "no_cafile_env"     -> EnvPart
      [] ssl_cap = "no_cafile"         -> EnvPart
      [] ssl_cap = "no_openssl_cafile" -> EnvPart \o ResolvedPart
      [] OTHER                         -> EnvPart \o ResolvedPart \o HardcodedPart

\* Lines 77-90: what the try block appends before it completes or before
\* the first AttributeError ends it.
Appended ==
    CASE ssl_cap = "no_function"       -> <<>>
      [] ssl_cap = "no_cafile_env"     -> <<>>
      [] ssl_cap = "no_cafile"         -> EnvPart
      [] ssl_cap = "no_openssl_cafile" -> EnvPart \o ResolvedPart
      [] OTHER                         -> EnvPart \o ResolvedPart \o HardcodedPart

\* FinalReturn without the emptiness test of the finally clause.
FinalReturnUnchecked(location) == Outcome("list", location)

\* Lines 91-95: the finally clause and the final return.
FinalReturn(location) ==
    IF Len(location) = 0 THEN Outcome("None", <<>>)
    ELSE Outcome("list", location)

\* The table after location += ... has run on the list bound at line 75.
TableAfter(tbl, os_name) ==
    IF Aliased(tbl, os_name)
    THEN [tbl EXCEPT ![os_name] = Lookup(tbl, os_name) \o Appended]
    ELSE tbl

\* The whole call: its outcome and the table it leaves behind.
get_os_sslcertfile_searchpath(tbl) ==
    LET named == get_os_name IN
    IF IsRaise(named)
    THEN [ret |-> Raised(named.kind), table |-> tbl]
    ELSE [ret   |-> FinalReturn(Lookup(tbl, named.val) \o Appended),
          table |-> TableAfter(tbl, named.val)]

-----------------------------------------------------------------------------
(* get_os_sslcertfile: lines 98-118 *)

\* Accepts without the file-type test.
AcceptsAnyExisting(l_file) == exists(l_file)

\* Lines 114-115: the test a candidate has to pass.
Accepts(l_file) == exists(l_file) /\ (isfile(l_file) \/ islink(l_file))

RECURSIVE ProbeFrom(_, _)
\* Lines 112-118: the loop, from position i on.
ProbeFrom(location, i) ==
    IF i > Len(location) THEN Outcome("None", <<>>)
    ELSE IF Accepts(location[i]) THEN Outcome("path", <<location[i]>>)
    ELSE ProbeFrom(location, i + 1)

get_os_sslcertfile(searched) ==
    IF IsRaise(searched) THEN searched
    ELSE IF searched.kind = "None" THEN Outcome("None", <<>>)
    ELSE ProbeFrom(searched.val, 1)

-----------------------------------------------------------------------------
(* The environments the functions are run in *)

Linux ==
    <<"L", "i", "n", "u", "x">>

Darwin ==
    <<"D", "a", "r", "w", "i", "n">>

SunOS ==
    <<"S", "u", "n", "O", "S">>

Ubuntu_22_04 ==
    <<"U", "b", "u", "n", "t", "u", " ", "2", "2", ".", "0", "4">>

SysNames == {Linux, Darwin, SunOS}

\* "platform": platform.linux_distribution exists; "distro": only the
\* distro package has it; "none": neither import succeeds.
Facilities == {"platform", "distro", "none"}

\* None, the empty string, a real name, a blank name.
DistroNames == {<<>>, << <<>> >>, <<Ubuntu_22_04>>, << <<" ">> >>}

\* "full": get_default_verify_paths and its three fields exist; otherwise
\* the first attribute whose access raises AttributeError.
SslCaps ==
    {"full", "no_function", "no_cafile_env", "no_cafile", "no_openssl_cafile"}

EnvValues == {<<>>, <<"">>, <<"/env/ca.pem">>}

Cafiles == {<<>>, <<"/etc/ssl/cert.pem">>}

OpensslCafiles == {<<>>, <<"/usr/lib/ssl/cert.pem">>}

StaticPaths ==
    UNION {{DEF_OS_LOCATIONS[k][i] : i \in 1..Len(DEF_OS_LOCATIONS[k])} :
           k \in DOMAIN DEF_OS_LOCATIONS}

AllPaths ==
    StaticPaths \cup {ARCH_RELEASE, "/env/ca.pem", "/etc/ssl/cert.pem",
                      "/usr/lib/ssl/cert.pem"}

Entry(t, g) == [type |-> t, target |-> g]

Missing == Entry("missing", "missing")

RegularFile == Entry("file", "file")

\* What a path can be: nothing, a regular file, a directory, a fifo, or a
\* symbolic link to any of these (a link to nothing is a broken link).
FsEntries ==
    {Entry(t, t) : t \in {"missing", "file", "dir", "fifo"}}
    \cup {Entry("link", g) : g \in {"missing", "file", "dir", "fifo"}}

EmptyFs == [p \in AllPaths |-> Missing]

\* A Debian-like host: the bundle is a regular file and OpenSSL's
\* hardcoded cafile is a symbolic link to it.
DebianFs ==
    [EmptyFs EXCEPT !["/etc/ssl/certs/ca-certificates.crt"] = RegularFile,
                    !["/usr/lib/ssl/cert.pem"] = Entry("link", "file")]

\* The paths whose filesystem entry the prober's runs vary.
ProbedPaths == {DEF_OS_LOCATIONS[darwin][i] : i \in 1..3}

InitOutputs ==
    /\ table = DEF_OS_LOCATIONS
    /\ os_ret = Unset
    /\ path_ret = Unset
    /\ first_path_ret = Unset
    /\ file_ret = Unset
    /\ last_op = "none"

\* Every combination of platform and crypto library on a Debian-like
\* filesystem, with and without the Arch marker file.
Init ==
    /\ InitOutputs
    /\ sys_name \in SysNames
    /\ distro_facility \in Facilities
    /\ distro_name \in DistroNames
    /\ ssl_cap \in SslCaps
    /\ environ \in EnvValues
    /\ cafile \in Cafiles
    /\ openssl_cafile \in OpensslCafiles
    /\ \E marker \in {Missing, RegularFile} :
          fs = [DebianFs EXCEPT ![ARCH_RELEASE] = marker]

\* Every filesystem over the probed paths, with the bundle named by the
\* environment a regular file, on a host in the table with three static
\* candidates and on one absent from it.
InitProbe ==
    /\ InitOutputs
    /\ sys_name \in {Darwin, SunOS}
    /\ distro_facility = "platform"
    /\ distro_name = <<>>
    /\ ssl_cap = "full"
    /\ environ \in {<<>>, <<"/env/ca.pem">>}
    /\ cafile = <<>>
    /\ openssl_cafile = <<>>
    /\ \E probed \in [ProbedPaths -> FsEntries] :
          fs = [p \in AllPaths |-> IF p \in ProbedPaths THEN probed[p]
                                   ELSE IF p = "/env/ca.pem" THEN RegularFile
                                   ELSE Missing]

-----------------------------------------------------------------------------
(* The calls *)

\* No entry of the table is longer than MaxLen.
WithinBound(tbl) == \A k \in DOMAIN tbl : Len(tbl[k]) <= MaxLen

GetOsName ==
    /\ os_ret' = get_os_name
    /\ last_op' = "os"
    /\ UNCHANGED <<table, inputs, path_ret, first_path_ret, file_ret>>

GetSearchPath ==
    LET call == get_os_sslcertfile_searchpath(table) IN
    /\ WithinBound(call.table)
    /\ table' = call.table
    /\ path_ret' = call.ret
    /\ first_path_ret' = IF first_path_ret = Unset THEN call.ret
                         ELSE first_path_ret
    /\ last_op' = "path"
    /\ UNCHANGED <<inputs, os_ret, file_ret>>

GetSslCertFile ==
    LET call == get_os_sslcertfile_searchpath(table) IN
    /\ WithinBound(call.table)
    /\ table' = call.table
    /\ path_ret' = call.ret
    /\ first_path_ret' = IF first_path_ret = Unset THEN call.ret
                         ELSE first_path_ret
    /\ file_ret' = get_os_sslcertfile(call.ret)
    /\ last_op' = "file"
    /\ UNCHANGED <<inputs, os_ret>>

Next == GetOsName \/ GetSearchPath \/ GetSslCertFile

Spec == Init /\ [][Next]_vars

SpecProbe == InitProbe /\ [][Next]_vars

-----------------------------------------------------------------------------
(* Vocabulary of the properties *)

Called(o) == o.kind # "unset"

\* The OS identity of this environment, when get_os_name returns one.
Identified == get_os_name.kind = "return"

Identity == get_os_name.val

InTable == Identified /\ Identity \in DOMAIN DEF_OS_LOCATIONS

\* The dynamic paths in priority order: environment, resolved, hardcoded.
DynamicInOrder ==
    (IF environ = <<>> THEN <<>> ELSE environ)
    \o (IF cafile = <<>> THEN <<>> ELSE cafile)
    \o (IF openssl_cafile = <<>> THEN <<>> ELSE openssl_cafile)

\* An object exists at p (symbolic links followed) and p is a regular file
\* or a symbolic link.
ExistingFileOrLink(p) ==
    /\ p \in DOMAIN fs
    /\ \/ fs[p].type = "file"
       \/ fs[p].type = "link" /\ fs[p].target # "missing"

\* p leads to a directory or to another object that is not a regular file.
ResolvesToNonRegular(p) ==
    /\ p \in DOMAIN fs
    /\ \/ fs[p].type \in {"dir", "fifo"}
       \/ fs[p].type = "link" /\ fs[p].target \in {"dir", "fifo"}

\* The search path holding only the static entries of the identity.
StaticOnly ==
    IF InTable THEN Outcome("list", DEF_OS_LOCATIONS[Identity])
    ELSE Outcome("None", <<>>)

Last(seq) == seq[Len(seq)]

-----------------------------------------------------------------------------
(* Properties *)

\* C1: the static table is never mutated at runtime: after any sequence of
\* calls, every OS identity's list equals its initial build-time list.
C1_TableNeverMutated == table = DEF_OS_LOCATIONS

\* C2: get_os_sslcertfile_searchpath is idempotent: with the environment
\* held fixed, every call returns a list equal to the first call's.
C2_Idempotent == Called(path_ret) => path_ret = first_path_ret

\* C3: for an OS identity present in the static table, the returned list is
\* exactly the static list of the identity followed by the dynamic paths
\* in the order environment, resolved cafile, hardcoded cafile.
C3_StaticThenDynamic ==
    (path_ret.kind = "list" /\ InTable /\ ssl_cap = "full")
        => path_ret.val = DEF_OS_LOCATIONS[Identity] \o DynamicInOrder

\* C4: get_os_sslcertfile returns the first candidate, in list order, that
\* exists and is a regular file or symbolic link, and returns None exactly
\* when the search path is None or no candidate passes that test.
C4_FirstExistingCandidate ==
    last_op = "file" =>
        /\ file_ret.kind = "path" =>
              /\ path_ret.kind = "list"
              /\ \E i \in 1..Len(path_ret.val) :
                    /\ path_ret.val[i] = file_ret.val[1]
                    /\ ExistingFileOrLink(path_ret.val[i])
                    /\ \A j \in 1..(i - 1) :
                          ~ExistingFileOrLink(path_ret.val[j])
        /\ file_ret.kind = "None" <=>
              \/ path_ret.kind = "None"
              \/ /\ path_ret.kind = "list"
                 /\ \A i \in 1..Len(path_ret.val) :
                       ~ExistingFileOrLink(path_ret.val[i])

\* C4 witness: a later candidate is returned although an earlier one exists
\* (as a directory) and a still later one would pass the test too.
C4_Witness ==
    /\ last_op = "file"
    /\ file_ret.kind = "path"
    /\ Len(path_ret.val) >= 3
    /\ file_ret.val[1] = path_ret.val[2]
    /\ fs[path_ret.val[1]].type = "dir"
    /\ ExistingFileOrLink(path_ret.val[3])

\* C5: get_os_sslcertfile_searchpath never returns an empty list; it
\* returns None when the combined list is empty, in particular for an
\* identity absent from the table with no dynamic discovery, and the
\* non-empty list otherwise.
C5_NeverEmptyList ==
    /\ path_ret.kind = "list" => Len(path_ret.val) > 0
    /\ (/\ Called(path_ret)
        /\ Identified
        /\ ~InTable
        /\ \/ ssl_cap = "no_function"
           \/ environ = <<>> /\ cafile = <<>> /\ openssl_cafile = <<>>)
           => path_ret.kind = "None"
    /\ path_ret.kind = "None" =>
           /\ ~InTable
           /\ \/ ssl_cap \in {"no_function", "no_cafile_env"}
              \/ environ = <<>>
    /\ (Called(path_ret) /\ InTable) => path_ret.kind = "list"

\* C5 witness: the search path of an identity absent from the table came
\* back as None.
C5_Witness ==
    /\ last_op = "path"
    /\ path_ret.kind = "None"
    /\ Identified
    /\ ~InTable

\* C6: a candidate that resolves to a directory or to another non-regular
\* object is never returned by get_os_sslcertfile, a symbolic link to a
\* directory included.
C6_NeverADirectory ==
    file_ret.kind = "path" => ~ResolvesToNonRegular(file_ret.val[1])

C8_NoEmptyEntry ==
    path_ret.kind = "list" =>
        \A i \in 1..Len(path_ret.val) : path_ret.val[i] # ""

\* C9: get_os_name surfaces no error: on Linux, when distribution detection
\* fails (no facility can be imported, or no name is obtained), it returns
\* the bare name 'linux'.
C9_DegradesToBareName ==
    (/\ Called(os_ret)
     /\ sys_name = Linux
     /\ fs[ARCH_RELEASE] = Missing
     /\ \/ distro_facility = "none"
        \/ distro_name \in {<<>>, << <<>> >>})
        => os_ret = Outcome("return", linux)

====
